---- MODULE Spec2Model ----
(***************************************************************************)
(* Model of the workout timer's session state machine (src/src/App.tsx):   *)
(* the Workout aggregate held in React state, the seven handlers that      *)
(* replace it, and the pure statistics functions computed from it.         *)
(* Timestamps are the values returned by now(); the time source is         *)
(* monotonically non-decreasing and may return 0.                          *)
(***************************************************************************)
EXTENDS Integers, Sequences, FiniteSets, TLC

\* ---------------------------------------------------------------- bounds
MaxTick == 0
MaxExercises == 2
MaxRecords == 2
MaxSentinels == 2
MaxPending == 2
MaxMsStep == 62
MaxPart == 8
MaxTickCount == 1

\* Timestamps of the basic set/rest scenario (beyond 0).
ScenarioTimes == {10000, 40000, 50000}

\* Values the time source can return.
Times == (0..MaxTick) \cup ScenarioTimes

\* ---------------------------------------------------------------- values
\* `null` of `number | null`.
Null == -1

Phases == {"READY", "IN_SET", "IN_REST"}

\* JavaScript truthiness of a `number | null`: null and 0 are falsy.
Truthy(x) == x # Null /\ x # 0

\* `x ?? d`
Coalesce(x, d) == IF x = Null THEN d ELSE x

SetLog(ss, se, rs, re) ==
    [setStart |-> ss, setEnd |-> se, restStart |-> rs, restEnd |-> re]

\* id is `ex-n`, name is `Exercise n`: both are represented by n.
Exercise(n) == [id |-> n, name |-> n, sets |-> <<>>]

newWorkout ==
    [startTime |-> Null,
     exerciseStartTime |-> Null,
     endTime |-> Null,
     phase |-> "READY",
     currentExerciseIndex |-> 0,
     exercises |-> <<Exercise(1)>>,
     active |-> [setStart |-> Null, restStart |-> Null]]

\* workout.exercises[workout.currentExerciseIndex] (0-based index).
CurrentExercise(w) == w.exercises[w.currentExerciseIndex + 1]

\* Number of SetLogs in the whole log.
RECURSIVE LogSize(_)
LogSize(exs) ==
    IF exs = <<>> THEN 0 ELSE Len(Head(exs).sets) + LogSize(Tail(exs))

getSetCountForDisplay(w) == Len(CurrentExercise(w).sets)

\* exercises[currentExerciseIndex] = { ...ex, sets }
WithCurrentSets(w, sets) ==
    [w.exercises EXCEPT ![w.currentExerciseIndex + 1].sets = sets]

\* Variant: patches sets[0] instead of the last record.
WithLastRestEnd_FirstIndex(sets, v) == [sets EXCEPT ![1].restEnd = v]

\* sets[sets.length - 1] = { ...last, restEnd: v }
WithLastRestEnd(sets, v) == [sets EXCEPT ![Len(sets)].restEnd = v]

\* ---------------------------------------------------------------- formatting
\* Strings are sequences of one-character strings.
DigitChars == <<"0", "1", "2", "3", "4", "5", "6", "7", "8", "9">>

\* String(n) for an integer n >= 0.
RECURSIVE String(_)
String(n) ==
    IF n < 10 THEN <<DigitChars[n + 1]>>
    ELSE String(n \div 10) \o <<DigitChars[(n % 10) + 1]>>

\* str.padStart(len, ch)
RECURSIVE padStart(_, _, _)
padStart(str, len, ch) ==
    IF Len(str) >= len THEN str ELSE padStart(<<ch>> \o str, len, ch)

\* Math.floor(ms / d) for d > 0.
MathFloorDiv(ms, d) == ms \div d

MathMax(a, b) == IF a >= b THEN a ELSE b

\* Variant: minutes roll over into hours that are not shown.
msToClock_HourRollover(ms) ==
    LET totalSec == MathMax(0, MathFloorDiv(ms, 1000))
        m == MathFloorDiv(totalSec, 60) % 60
        sec == totalSec % 60
    IN String(m) \o <<":">> \o padStart(String(sec), 2, "0")

msToClock(ms) ==
    LET totalSec == MathMax(0, MathFloorDiv(ms, 1000))
        m == MathFloorDiv(totalSec, 60)
        sec == totalSec % 60
    IN String(m) \o <<":">> \o padStart(String(sec), 2, "0")

\* Math.round(num / den) for den > 0, as the set of values the evaluation
\* in IEEE-754 doubles can give: the exact quotient rounded half up, and
\* for an exact half also the integer below, since the computed product
\* (part / total) * 100 can fall just short of the half.
MathRound(num, den) ==
    LET up == (2 * num + den) \div (2 * den)
    IN IF (2 * num + den) % (2 * den) = 0 THEN {up, up - 1} ELSE {up}

\* Variant: the percentage is truncated instead of rounded.
calcPercent_Floor(part, total) ==
    IF total = 0 \/ total <= 0 THEN {0}
    ELSE {(100 * part) \div total}

\* calcPercent(part, total): the set of values it can return.
calcPercent(part, total) ==
    IF total = 0 \/ total <= 0 THEN {0}
    ELSE MathRound(100 * part, total)

\* ---------------------------------------------------------------- statistics
RECURSIVE SetsWorkMs(_)
SetsWorkMs(sets) ==
    IF sets = <<>> THEN 0
    ELSE LET s == Head(sets)
         IN (IF s.setStart # Null /\ s.setEnd # Null
             THEN s.setEnd - s.setStart ELSE 0) + SetsWorkMs(Tail(sets))

RECURSIVE SetsRestMs(_)
SetsRestMs(sets) ==
    IF sets = <<>> THEN 0
    ELSE LET s == Head(sets)
         IN (IF s.restStart # Null /\ s.restEnd # Null
             THEN s.restEnd - s.restStart ELSE 0) + SetsRestMs(Tail(sets))

exerciseTotals(ex) ==
    [workMs |-> SetsWorkMs(ex.sets), restMs |-> SetsRestMs(ex.sets)]

RECURSIVE ExercisesWorkMs(_)
ExercisesWorkMs(exs) ==
    IF exs = <<>> THEN 0
    ELSE SetsWorkMs(Head(exs).sets) + ExercisesWorkMs(Tail(exs))

RECURSIVE ExercisesRestMs(_)
ExercisesRestMs(exs) ==
    IF exs = <<>> THEN 0
    ELSE SetsRestMs(Head(exs).sets) + ExercisesRestMs(Tail(exs))

\* calcTotals(workout), with n the value now() returns.
calcTotals(w, n) ==
    LET end == Coalesce(w.endTime, n)
    IN [workMs |-> ExercisesWorkMs(w.exercises),
        restMs |-> ExercisesRestMs(w.exercises),
        gymMs  |-> IF Truthy(w.startTime) THEN end - w.startTime ELSE 0]

\* ---------------------------------------------------------------- handlers
\* Each handler is a function of the workout it closes over and of the
\* value(s) now() returns while it runs; the result is the workout passed to
\* setWorkout, or the unchanged workout when the handler returns early.

startWorkout(w, t) ==
    IF Truthy(w.startTime) THEN w
    ELSE [w EXCEPT !.startTime = t,
                   !.exerciseStartTime = Null,
                   !.endTime = Null,
                   !.phase = "READY",
                   !.active = [setStart |-> Null, restStart |-> Null]]

\* Variant: the exercise timer is never started.
startSet_NoExerciseTimer(w, t) ==
    IF ~Truthy(w.startTime) \/ Truthy(w.endTime) \/ w.phase # "READY" THEN w
    ELSE [w EXCEPT !.phase = "IN_SET",
                   !.active = [setStart |-> t, restStart |-> Null]]

startSet(w, t) ==
    IF ~Truthy(w.startTime) \/ Truthy(w.endTime) \/ w.phase # "READY" THEN w
    ELSE [w EXCEPT !.phase = "IN_SET",
                   !.exerciseStartTime =
                       IF ~Truthy(w.exerciseStartTime) THEN t
                       ELSE w.exerciseStartTime,
                   !.active = [setStart |-> t, restStart |-> Null]]

\* Variant: setStart and setEnd of the pushed record are swapped.
endSetStartRest_Swapped(w, t) ==
    IF ~Truthy(w.startTime) \/ Truthy(w.endTime) \/ w.phase # "IN_SET" THEN w
    ELSE LET sets == Append(CurrentExercise(w).sets,
                            SetLog(t, w.active.setStart, t, Null))
         IN [w EXCEPT !.exercises = WithCurrentSets(w, sets),
                      !.phase = "IN_REST",
                      !.active = [setStart |-> Null, restStart |-> t]]

\* Variant: the rest is taken to start when the set started.
endSetStartRest_RestFromSetStart(w, t) ==
    IF ~Truthy(w.startTime) \/ Truthy(w.endTime) \/ w.phase # "IN_SET" THEN w
    ELSE LET sets == Append(CurrentExercise(w).sets,
                            SetLog(w.active.setStart, t,
                                   w.active.setStart, Null))
         IN [w EXCEPT !.exercises = WithCurrentSets(w, sets),
                      !.phase = "IN_REST",
                      !.active = [setStart |-> Null,
                                  restStart |-> w.active.setStart]]

\* Variant: the guard forgets to test the phase.
endSetStartRest_NoPhaseGuard(w, t) ==
    IF ~Truthy(w.startTime) \/ Truthy(w.endTime) THEN w
    ELSE LET sets == Append(CurrentExercise(w).sets,
                            SetLog(w.active.setStart, t, t, Null))
         IN [w EXCEPT !.exercises = WithCurrentSets(w, sets),
                      !.phase = "IN_REST",
                      !.active = [setStart |-> Null, restStart |-> t]]

endSetStartRest(w, t) ==
    IF ~Truthy(w.startTime) \/ Truthy(w.endTime) \/ w.phase # "IN_SET" THEN w
    ELSE LET sets == Append(CurrentExercise(w).sets,
                            SetLog(w.active.setStart, t, t, Null))
         IN [w EXCEPT !.exercises = WithCurrentSets(w, sets),
                      !.phase = "IN_REST",
                      !.active = [setStart |-> Null, restStart |-> t]]

\* Variant: active is spread and only setStart is replaced, so the old
\* restStart survives.
endRestStartSet_KeepsRestStart(w, t) ==
    IF ~Truthy(w.startTime) \/ Truthy(w.endTime) \/ w.phase # "IN_REST" THEN w
    ELSE LET sets == CurrentExercise(w).sets
         IN IF Len(sets) = 0 THEN w
            ELSE [w EXCEPT !.exercises =
                               WithCurrentSets(w, WithLastRestEnd(sets, t)),
                           !.phase = "IN_SET",
                           !.active = [setStart |-> t,
                                       restStart |-> w.active.restStart]]

endRestStartSet(w, t) ==
    IF ~Truthy(w.startTime) \/ Truthy(w.endTime) \/ w.phase # "IN_REST" THEN w
    ELSE LET sets == CurrentExercise(w).sets
         IN IF Len(sets) = 0 THEN w
            ELSE [w EXCEPT !.exercises =
                               WithCurrentSets(w, WithLastRestEnd(sets, t)),
                           !.phase = "IN_SET",
                           !.active = [setStart |-> t, restStart |-> Null]]

\* Variant: moving on while resting leaves the last rest open.
nextExerciseForceFinish_LeavesRestOpen(w, t) ==
    IF w.phase = "IN_SET" THEN
        LET sets == Append(CurrentExercise(w).sets,
                           SetLog(Coalesce(w.active.setStart, t), t, Null, Null))
        IN [w EXCEPT !.exercises = WithCurrentSets(w, sets),
                     !.active = [setStart |-> Null, restStart |-> Null],
                     !.phase = "READY"]
    ELSE IF w.phase = "IN_REST" THEN
        [w EXCEPT !.active = [setStart |-> Null, restStart |-> Null],
                  !.phase = "READY"]
    ELSE w

\* The force-finish part of nextExercise (the local `w`).
nextExerciseForceFinish(w, t) ==
    IF w.phase = "IN_SET" THEN
        LET sets == Append(CurrentExercise(w).sets,
                           SetLog(Coalesce(w.active.setStart, t), t, Null, Null))
        IN [w EXCEPT !.exercises = WithCurrentSets(w, sets),
                     !.active = [setStart |-> Null, restStart |-> Null],
                     !.phase = "READY"]
    ELSE IF w.phase = "IN_REST" THEN
        LET sets == CurrentExercise(w).sets
            exs  == IF Len(sets) > 0
                    THEN WithCurrentSets(w,
                             WithLastRestEnd(sets,
                                 Coalesce(sets[Len(sets)].restEnd, t)))
                    ELSE w.exercises
        IN [w EXCEPT !.exercises = exs,
                     !.active = [setStart |-> Null, restStart |-> Null],
                     !.phase = "READY"]
    ELSE w

\* Variant: the new exercise is appended but currentExerciseIndex is not
\* advanced.
nextExercise_KeepsIndex(w, t) ==
    IF ~Truthy(w.startTime) \/ Truthy(w.endTime) THEN w
    ELSE LET w2 == nextExerciseForceFinish(w, t)
             exercises == Append(w2.exercises, Exercise(Len(w2.exercises) + 1))
         IN [w2 EXCEPT !.exercises = exercises,
                       !.exerciseStartTime = Null,
                       !.phase = "READY",
                       !.active = [setStart |-> Null, restStart |-> Null]]

\* Variant: the exercise timer of the previous exercise is carried over.
nextExercise_KeepsExerciseTimer(w, t) ==
    IF ~Truthy(w.startTime) \/ Truthy(w.endTime) THEN w
    ELSE LET w2 == nextExerciseForceFinish(w, t)
             exercises == Append(w2.exercises, Exercise(Len(w2.exercises) + 1))
         IN [w2 EXCEPT !.exercises = exercises,
                       !.currentExerciseIndex = Len(exercises) - 1,
                       !.phase = "READY",
                       !.active = [setStart |-> Null, restStart |-> Null]]

nextExercise(w, t) ==
    IF ~Truthy(w.startTime) \/ Truthy(w.endTime) THEN w
    ELSE LET w2 == nextExerciseForceFinish(w, t)
             exercises == Append(w2.exercises, Exercise(Len(w2.exercises) + 1))
         IN [w2 EXCEPT !.exercises = exercises,
                       !.currentExerciseIndex = Len(exercises) - 1,
                       !.exerciseStartTime = Null,
                       !.phase = "READY",
                       !.active = [setStart |-> Null, restStart |-> Null]]

\* Variant: the zero-length rest is forgotten when finishing mid-lift.
finishForceClose_NoRest(w, t) ==
    IF w.phase = "IN_SET" THEN
        LET sets == Append(CurrentExercise(w).sets,
                           SetLog(Coalesce(w.active.setStart, t), t, Null, Null))
        IN [w EXCEPT !.exercises = WithCurrentSets(w, sets)]
    ELSE IF w.phase = "IN_REST" THEN
        LET sets == CurrentExercise(w).sets
        IN IF Len(sets) > 0
              /\ sets[Len(sets)].restStart # Null
              /\ sets[Len(sets)].restEnd = Null
           THEN [w EXCEPT !.exercises =
                              WithCurrentSets(w, WithLastRestEnd(sets, t))]
           ELSE w
    ELSE w

\* Variant: the rest added when finishing mid-lift starts at the set's start,
\* so the lifting interval is counted as rest as well.
finishForceClose_RestFromSetStart(w, t) ==
    IF w.phase = "IN_SET" THEN
        LET ss   == Coalesce(w.active.setStart, t)
            sets == Append(CurrentExercise(w).sets, SetLog(ss, t, ss, t))
        IN [w EXCEPT !.exercises = WithCurrentSets(w, sets)]
    ELSE IF w.phase = "IN_REST" THEN
        LET sets == CurrentExercise(w).sets
        IN IF Len(sets) > 0
              /\ sets[Len(sets)].restStart # Null
              /\ sets[Len(sets)].restEnd = Null
           THEN [w EXCEPT !.exercises =
                              WithCurrentSets(w, WithLastRestEnd(sets, t))]
           ELSE w
    ELSE w

\* The force-close part of finishWorkout (the local `w`), t its now().
finishForceClose(w, t) ==
    IF w.phase = "IN_SET" THEN
        LET sets == Append(CurrentExercise(w).sets,
                           SetLog(Coalesce(w.active.setStart, t), t, t, t))
        IN [w EXCEPT !.exercises = WithCurrentSets(w, sets)]
    ELSE IF w.phase = "IN_REST" THEN
        LET sets == CurrentExercise(w).sets
        IN IF Len(sets) > 0
              /\ sets[Len(sets)].restStart # Null
              /\ sets[Len(sets)].restEnd = Null
           THEN [w EXCEPT !.exercises =
                              WithCurrentSets(w, WithLastRestEnd(sets, t))]
           ELSE w
    ELSE w

\* Variant: the guard forgets to test endTime.
finishWorkout_NoEndGuard(w, t, t2) ==
    IF ~Truthy(w.startTime) THEN w
    ELSE [finishForceClose(w, t) EXCEPT
              !.active = [setStart |-> Null, restStart |-> Null],
              !.phase = "READY",
              !.endTime = t2]

\* t is the now() of the force-close, t2 the later now() stored as endTime.
finishWorkout(w, t, t2) ==
    IF ~Truthy(w.startTime) \/ Truthy(w.endTime) THEN w
    ELSE [finishForceClose(w, t) EXCEPT
              !.active = [setStart |-> Null, restStart |-> Null],
              !.phase = "READY",
              !.endTime = t2]

\* Variant: the exercises of the old session are carried over.
resetAll_KeepsLog(w) == [newWorkout EXCEPT !.exercises = w.exercises]

resetAll(w) == newWorkout

\* ---------------------------------------------------------------- wake lock
\* The screen wake lock: wakeLockRef.current and the asynchronous work of
\* requestWakeLock / releaseWakeLock.  A sentinel is the number of the
\* request that was granted it.
\*   supported  navigator.wakeLock.request exists
\*   ref        wakeLockRef.current (Null or a sentinel)
\*   held       sentinels the system holds the screen awake for
\*   requests   wl.request("screen") promises not settled yet
\*   granted    sentinels granted so far
\*   awaiting   per sentinel, the release() promises being awaited
WakeLock(supported) ==
    [supported |-> supported,
     ref       |-> Null,
     held      |-> {},
     requests  |-> 0,
     granted   |-> 0,
     awaiting  |-> [s \in 1..MaxSentinels |-> 0]]

RECURSIVE SumTo(_, _)
SumTo(f, n) == IF n = 0 THEN 0 ELSE f[n] + SumTo(f, n - 1)

\* Asynchronous steps of the wake lock still to run.
WakePending(k) == k.requests + SumTo(k.awaiting, MaxSentinels)

\* requestWakeLock up to its await.
requestWakeLock(k) ==
    IF ~k.supported THEN k
    ELSE [k EXCEPT !.requests = @ + 1]

\* The continuation of requestWakeLock once the request is granted: the
\* sentinel is stored and gets its "release" listener.
requestGranted(k) ==
    [k EXCEPT !.requests = @ - 1,
              !.granted = @ + 1,
              !.held = @ \cup {k.granted + 1},
              !.ref = k.granted + 1]

\* The request is rejected: the catch block ignores it.
requestRejected(k) == [k EXCEPT !.requests = @ - 1]

\* releaseWakeLock up to its await; with nothing in wakeLockRef the finally
\* block runs at once.
releaseWakeLock(k) ==
    IF k.ref # Null
    THEN [k EXCEPT !.awaiting[k.ref] = @ + 1]
    ELSE [k EXCEPT !.ref = Null]

\* The system releases sentinel s (on release() or on its own): the
\* "release" listener clears wakeLockRef.
sentinelReleased(k, s) ==
    [k EXCEPT !.held = @ \ {s}, !.ref = Null]

\* The continuation of releaseWakeLock after `await release()` of s: the
\* finally block.
releaseFinally(k, s) ==
    [k EXCEPT !.awaiting[s] = @ - 1, !.ref = Null]

\* ---------------------------------------------------------------- state
VARIABLES
    workout,   \* the Workout in React state
    clock,     \* latest value returned by the time source
    lastOp,    \* the handler invoked last ("none" after construction)
    script,    \* steps of the basic set/rest scenario done so far, -1 if off it
    resetFrom, \* what the resetAll invoked last discarded, else "none"
    second,    \* what a rapid second invocation of lastOp saw, else "none"
    wake,      \* the screen wake lock
    pure,      \* a statistics function, its arguments and its result
    tick       \* the tick counter in React state

vars == <<workout, clock, lastOp, script, resetFrom, second, wake, pure, tick>>

\* No statistics function applied.
PureIdle == [fn |-> "none", arg |-> <<>>, out |-> <<>>]

\* What kind of session w is.
SessionKind(w) ==
    IF w.endTime # Null THEN "finished"
    ELSE IF w.startTime = Null THEN "notStarted"
    ELSE w.phase

\* The basic set/rest scenario: handler and time of each step.
ScenarioOps == <<"startWorkout", "startSet", "endSetStartRest",
                 "endRestStartSet", "finishWorkout">>
ScenarioAt == <<0, 0, 10000, 40000, 50000>>

ScriptAfter(op, t) ==
    IF script >= 0 /\ script < Len(ScenarioOps)
       /\ ScenarioOps[script + 1] = op /\ ScenarioAt[script + 1] = t
    THEN script + 1 ELSE -1

Init ==
    /\ workout = newWorkout
    /\ clock = 0
    /\ lastOp = "none"
    /\ script = 0
    /\ resetFrom = "none"
    /\ second = "none"
    /\ wake = WakeLock(FALSE)
    /\ pure = PureIdle
    /\ tick = 0

\* The log is within the modelled size (a rapid double nextExercise may
\* leave it one exercise beyond; nothing is explored from there).
WithinBounds == Len(workout.exercises) <= MaxExercises

\* A handler invoked when the time source reads t.
Invoke(op, t, w2) ==
    /\ WithinBounds
    /\ t \in Times
    /\ t >= clock
    /\ workout' = w2
    /\ clock' = t
    /\ lastOp' = op
    /\ script' = ScriptAfter(op, t)
    /\ resetFrom' = "none"
    /\ second' = "none"
    /\ UNCHANGED <<pure, tick>>

\* Room for one more asynchronous wake lock step.
WakeRoom ==
    /\ WakePending(wake) < MaxPending
    /\ wake.granted + wake.requests < MaxSentinels

TapStartWorkout ==
    /\ (wake.supported /\ ~Truthy(workout.startTime)) => WakeRoom
    /\ \E t \in Times : Invoke("startWorkout", t, startWorkout(workout, t))
    /\ wake' = IF Truthy(workout.startTime) THEN wake
               ELSE requestWakeLock(wake)

TapStartSet ==
    /\ LogSize(workout.exercises) < MaxRecords
    /\ \E t \in Times : Invoke("startSet", t, startSet(workout, t))
    /\ UNCHANGED wake

TapEndSetStartRest ==
    /\ \E t \in Times : Invoke("endSetStartRest", t, endSetStartRest(workout, t))
    /\ UNCHANGED wake

TapEndRestStartSet ==
    /\ LogSize(workout.exercises) < MaxRecords
    /\ \E t \in Times : Invoke("endRestStartSet", t, endRestStartSet(workout, t))
    /\ UNCHANGED wake

TapNextExercise ==
    /\ Len(workout.exercises) < MaxExercises
    /\ \E t \in Times : Invoke("nextExercise", t, nextExercise(workout, t))
    /\ UNCHANGED wake

\* finishWorkout returns before releaseWakeLock when its guard fails.
FinishReleases(w) == Truthy(w.startTime) /\ ~Truthy(w.endTime)

TapFinishWorkout ==
    /\ WithinBounds
    /\ (FinishReleases(workout) /\ wake.ref # Null)
           => WakePending(wake) < MaxPending
    /\ \E t \in Times : \E t2 \in Times :
        /\ t >= clock
        /\ t2 >= t
        /\ workout' = finishWorkout(workout, t, t2)
        /\ clock' = t2
        /\ lastOp' = "finishWorkout"
        /\ script' = IF t2 = t THEN ScriptAfter("finishWorkout", t) ELSE -1
    /\ resetFrom' = "none"
    /\ second' = "none"
    /\ wake' = IF FinishReleases(workout) THEN releaseWakeLock(wake) ELSE wake
    /\ UNCHANGED <<pure, tick>>

TapResetAll ==
    /\ WithinBounds
    /\ wake.ref # Null => WakePending(wake) < MaxPending
    /\ workout' = resetAll(workout)
    /\ lastOp' = "resetAll"
    /\ script' = 0
    /\ resetFrom' = SessionKind(workout)
    /\ second' = "none"
    /\ tick' = 0
    /\ wake' = releaseWakeLock(wake)
    /\ UNCHANGED <<clock, pure>>

Next ==
    \/ TapStartWorkout
    \/ TapStartSet
    \/ TapEndSetStartRest
    \/ TapEndRestStartSet
    \/ TapNextExercise
    \/ TapFinishWorkout
    \/ TapResetAll

Spec == Init /\ [][Next]_vars

\* ---- the formatting and percentage functions on their own
\* Durations handed to msToClock.
MsInputs ==
    {k * 1009 : k \in (-3)..MaxMsStep}
        \cup {59000, 59999, 60000, 599999, 600000, 3599999, 3600000, 3661000}

\* Arguments handed to calcPercent.
PercentInputs ==
    (((-1)..MaxPart) \X ((-1)..MaxPart)) \cup {<<50, 100>>, <<29, 200>>}

InitPure ==
    /\ workout = newWorkout
    /\ clock = 0
    /\ lastOp = "none"
    /\ script = 0
    /\ resetFrom = "none"
    /\ second = "none"
    /\ wake = WakeLock(FALSE)
    /\ tick = 0
    /\ \E a \in {<<ms>> : ms \in MsInputs} \cup PercentInputs :
          pure = [fn |-> "none", arg |-> a, out |-> <<>>]

Apply(fn, out) ==
    /\ pure.fn = "none"
    /\ pure' = [pure EXCEPT !.fn = fn, !.out = out]
    /\ UNCHANGED <<workout, clock, lastOp, script, resetFrom, second, wake, tick>>

ApplyMsToClock ==
    /\ Len(pure.arg) = 1
    /\ Apply("msToClock", msToClock(pure.arg[1]))

ApplyCalcPercent ==
    /\ Len(pure.arg) = 2
    /\ \E r \in calcPercent(pure.arg[1], pure.arg[2]) :
          Apply("calcPercent", <<r>>)

NextPure ==
    \/ ApplyMsToClock
    \/ ApplyCalcPercent

SpecPure == InitPure /\ [][NextPure]_vars

\* ---- handlers invoked twice in rapid succession
\* How the second invocation sees the Workout: "updated" when React has
\* re-rendered in between, "stale" when it closes over the same snapshot as
\* the first one.  setWorkout replaces the state, so the second call wins.
Sights == {"updated", "stale"}

\* The handler op applied to w with now() = t (t2 the second reading of
\* finishWorkout).
Handle(op, w, t, t2) ==
    CASE op = "startWorkout"    -> startWorkout(w, t)
      [] op = "startSet"        -> startSet(w, t)
      [] op = "endSetStartRest" -> endSetStartRest(w, t)
      [] op = "endRestStartSet" -> endRestStartSet(w, t)
      [] op = "nextExercise"    -> nextExercise(w, t)
      [] op = "finishWorkout"   -> finishWorkout(w, t, t2)
      [] op = "resetAll"        -> resetAll(w)

\* The wake lock calls of handler op invoked on w.
HandleWake(op, w, k) ==
    CASE op = "startWorkout" ->
             IF Truthy(w.startTime) THEN k ELSE requestWakeLock(k)
      [] op = "finishWorkout" ->
             IF FinishReleases(w) THEN releaseWakeLock(k) ELSE k
      [] op = "resetAll" -> releaseWakeLock(k)
      [] OTHER -> k

\* Readings of now() from t on.
From(t) == {u \in Times : u >= t}

\* Handler op invoked with now() readings a, b and again with c, d.
RapidAt(op, a, b, c, d, sight) ==
    /\ WithinBounds
    /\ LET w1   == Handle(op, workout, a, b)
           seen == IF sight = "updated" THEN w1 ELSE workout
       IN /\ workout' = Handle(op, seen, c, d)
          /\ wake' = HandleWake(op, seen, HandleWake(op, workout, wake))
    /\ clock' = IF op = "resetAll" THEN clock ELSE d
    /\ lastOp' = op
    /\ script' = IF op = "resetAll" THEN 0 ELSE -1
    /\ resetFrom' = IF op = "resetAll" THEN SessionKind(workout) ELSE "none"
    /\ second' = sight
    /\ tick' = IF op = "resetAll" THEN 0 ELSE tick
    /\ UNCHANGED pure

Rapid(op) ==
    \E sight \in Sights : \E a \in From(clock) : \E c \in From(a) :
        RapidAt(op, a, a, c, c, sight)

RapidStartWorkout == ~wake.supported /\ Rapid("startWorkout")

RapidStartSet ==
    /\ LogSize(workout.exercises) < MaxRecords
    /\ Rapid("startSet")

RapidEndSetStartRest == Rapid("endSetStartRest")

RapidEndRestStartSet ==
    /\ LogSize(workout.exercises) < MaxRecords
    /\ Rapid("endRestStartSet")

RapidNextExercise ==
    /\ Len(workout.exercises) < MaxExercises
    /\ Rapid("nextExercise")

RapidFinishWorkout ==
    /\ ~wake.supported
    /\ \E sight \in Sights : \E a \in From(clock) : \E b \in From(a) :
       \E c \in From(b) : \E d \in From(c) :
           RapidAt("finishWorkout", a, b, c, d, sight)

RapidResetAll ==
    /\ ~wake.supported
    /\ \E sight \in Sights :
           RapidAt("resetAll", clock, clock, clock, clock, sight)

NextRapid ==
    \/ Next
    \/ RapidStartWorkout
    \/ RapidStartSet
    \/ RapidEndSetStartRest
    \/ RapidEndRestStartSet
    \/ RapidNextExercise
    \/ RapidFinishWorkout
    \/ RapidResetAll

SpecRapid == Init /\ [][NextRapid]_vars

\* ---- the session on a platform with the Screen Wake Lock API
Async(k2) ==
    /\ wake' = k2
    /\ UNCHANGED <<workout, clock, lastOp, script, resetFrom, second, pure, tick>>

RequestGranted == wake.requests > 0 /\ Async(requestGranted(wake))

RequestRejected == wake.requests > 0 /\ Async(requestRejected(wake))

SentinelReleased == \E s \in wake.held : Async(sentinelReleased(wake, s))

ReleaseFinally ==
    \E s \in 1..MaxSentinels :
        /\ wake.awaiting[s] > 0
        /\ s \notin wake.held
        /\ Async(releaseFinally(wake, s))

InitWake ==
    /\ workout = newWorkout
    /\ clock = 0
    /\ lastOp = "none"
    /\ script = 0
    /\ resetFrom = "none"
    /\ second = "none"
    /\ wake = WakeLock(TRUE)
    /\ pure = PureIdle
    /\ tick = 0

NextWake ==
    \/ Next
    \/ RequestGranted
    \/ RequestRejected
    \/ SentinelReleased
    \/ ReleaseFinally

SpecWake == InitWake /\ [][NextWake]_vars

\* ---- the session with the periodic tick
\* Variant: the interval is kept after the workout has ended.
tickEffectRuns_AfterEnd(w) == Truthy(w.startTime)

\* The tick effect installs the interval unless it returns early; its
\* cleanup clears the interval when startTime or endTime changes.
tickEffectRuns(w) == ~(~Truthy(w.startTime) \/ Truthy(w.endTime))

\* The interval callback: setTick((x) => x + 1).
Tick ==
    /\ tickEffectRuns(workout)
    /\ tick < MaxTickCount
    /\ tick' = tick + 1
    /\ UNCHANGED <<workout, clock, lastOp, script, resetFrom, second, wake,
                   pure>>

NextTick ==
    \/ Next
    \/ Tick

SpecTick == Init /\ [][NextTick]_vars

TypeOK ==
    /\ workout.phase \in Phases
    /\ clock \in Times
    /\ script \in -1..5
    /\ tick \in 0..MaxTickCount

\* ---------------------------------------------------------------- helpers
\* All (exercise, record) positions of the log, 1-based.
Records(w) ==
    {<<i, j>> \in (1..Len(w.exercises)) \X (1..MaxRecords) :
        j <= Len(w.exercises[i].sets)}

Rec(w, p) == w.exercises[p[1]].sets[p[2]]

Totals == calcTotals(workout, clock)

\* ---------------------------------------------------------------- C1
\* C1: phase is READY exactly when active.setStart and active.restStart are
\* both absent; in IN_SET exactly active.setStart is present, in IN_REST
\* exactly active.restStart is present.
C1_PhaseMirrorsActive ==
    /\ (workout.phase = "READY") <=>
           (workout.active.setStart = Null /\ workout.active.restStart = Null)
    /\ workout.phase = "IN_SET" =>
           (workout.active.setStart # Null /\ workout.active.restStart = Null)
    /\ workout.phase = "IN_REST" =>
           (workout.active.restStart # Null /\ workout.active.setStart = Null)

\* A second set has been started from a rest.
C1_Witness ==
    /\ lastOp = "endRestStartSet"
    /\ workout.phase = "IN_SET"
    /\ workout.active.setStart # Null

\* ---------------------------------------------------------------- C2
\* C2: in a finished session the lifting and resting totals of calcTotals
\* together do not exceed the total gym time.
C2_TotalsWithinGymTime ==
    workout.endTime # Null => Totals.workMs + Totals.restMs <= Totals.gymMs

\* A finished session with lifting and resting of nonzero length.
C2_Witness ==
    /\ workout.endTime # Null
    /\ Totals.workMs > 0
    /\ Totals.restMs > 0

\* ---------------------------------------------------------------- C3
\* C3: a handler invoked when its precondition does not hold leaves the
\* Workout unchanged.
C3_FailedPreconditionIsNoOp ==
    [][ /\ (lastOp' = "startWorkout" /\ workout.startTime # Null)
            => workout' = workout
        /\ (lastOp' = "startSet"
            /\ (workout.startTime = Null \/ workout.endTime # Null
                \/ workout.phase # "READY"))
            => workout' = workout
        /\ (lastOp' = "endSetStartRest" /\ workout.phase # "IN_SET")
            => workout' = workout
        /\ (lastOp' = "endRestStartSet"
            /\ (workout.phase # "IN_REST"
                \/ Len(CurrentExercise(workout).sets) = 0))
            => workout' = workout
        /\ (lastOp' \in {"nextExercise", "finishWorkout"}
            /\ (workout.startTime = Null \/ workout.endTime # Null))
            => workout' = workout ]_vars

\* ---------------------------------------------------------------- C4
\* C4: a finished session is in phase READY with both active timestamps
\* absent, and every handler other than resetAll leaves it unchanged.
C4_FinishedIsAbsorbing ==
    /\ [](workout.endTime # Null =>
            /\ workout.phase = "READY"
            /\ workout.active.setStart = Null
            /\ workout.active.restStart = Null)
    /\ [][ (workout.endTime # Null /\ lastOp' # "resetAll")
               => workout' = workout ]_vars

\* finishWorkout was invoked again, later, on a finished session that
\* holds records.
C4_Witness ==
    /\ workout.endTime # Null
    /\ lastOp = "finishWorkout"
    /\ clock > workout.endTime
    /\ Records(workout) # {}

\* ---------------------------------------------------------------- C5
\* C5: every SetLog has setStart and setEnd present with setStart <= setEnd;
\* if restEnd is present, restStart is present and restStart <= restEnd.
C5_RecordsWellFormed ==
    \A p \in Records(workout) :
        LET s == Rec(workout, p)
        IN /\ s.setStart # Null
           /\ s.setEnd # Null
           /\ s.setStart <= s.setEnd
           /\ s.restEnd # Null =>
                (s.restStart # Null /\ s.restStart <= s.restEnd)

\* A record with a lift and a closed rest, both of nonzero length.
C5_Witness ==
    \E p \in Records(workout) :
        LET s == Rec(workout, p)
        IN /\ s.setStart < s.setEnd
           /\ s.restEnd # Null
           /\ s.restStart < s.restEnd

\* ---------------------------------------------------------------- C6
\* C6 as stated: in a finished session every SetLog has restStart and
\* restEnd present.
C6_EveryRecordHasRest ==
    workout.endTime # Null =>
        \A p \in Records(workout) :
            Rec(workout, p).restStart # Null /\ Rec(workout, p).restEnd # Null

\* C6 amended: in a finished session every SetLog has restStart and restEnd
\* both present, except that the last record of an exercise other than the
\* current one (force-closed by nextExercise while lifting) has both absent.
C6_RestDefinedUnlessForceClosed ==
    workout.endTime # Null =>
        \A p \in Records(workout) :
            LET s == Rec(workout, p)
            IN \/ s.restStart # Null /\ s.restEnd # Null
               \/ /\ s.restStart = Null
                  /\ s.restEnd = Null
                  /\ p[1] # workout.currentExerciseIndex + 1
                  /\ p[2] = Len(workout.exercises[p[1]].sets)

\* A session finished while lifting, after an exercise was left while
\* lifting: one record without rest, one with the zero-length rest.
C6_Witness ==
    /\ workout.endTime # Null
    /\ lastOp = "finishWorkout"
    /\ \E p \in Records(workout) : Rec(workout, p).restStart = Null
    /\ \E p \in Records(workout) :
          /\ p[1] = workout.currentExerciseIndex + 1
          /\ Rec(workout, p).restStart = Rec(workout, p).restEnd
          /\ Rec(workout, p).restStart # Null

\* ---------------------------------------------------------------- C7
\* C7: across every step other than resetAll no exercise and no SetLog is
\* removed or reordered and every record keeps its fields, except that the
\* last record of the current exercise may get its absent restEnd filled.
C7_LogAppendOnly ==
    [][ lastOp' # "resetAll" =>
          /\ Len(workout'.exercises) >= Len(workout.exercises)
          /\ \A i \in 1..Len(workout.exercises) :
                LET old == workout.exercises[i]
                    new == workout'.exercises[i]
                IN /\ new.id = old.id
                   /\ new.name = old.name
                   /\ Len(new.sets) >= Len(old.sets)
                   /\ \A j \in 1..Len(old.sets) :
                         \/ new.sets[j] = old.sets[j]
                         \/ /\ i = workout.currentExerciseIndex + 1
                            /\ j = Len(old.sets)
                            /\ old.sets[j].restEnd = Null
                            /\ new.sets[j].restEnd # Null
                            /\ new.sets[j] =
                                 [old.sets[j] EXCEPT
                                      !.restEnd = new.sets[j].restEnd] ]_vars

\* nextExercise closed the open rest of the second record of the exercise
\* it left.
C7_Witness ==
    /\ lastOp = "nextExercise"
    /\ Len(workout.exercises) = 2
    /\ Len(workout.exercises[1].sets) = 2
    /\ workout.exercises[1].sets[2].restEnd = clock
    /\ workout.exercises[1].sets[1].restEnd < clock

\* ---------------------------------------------------------------- C8
\* C8: once startTime is present it keeps its value through every handler
\* other than resetAll.
C8_StartTimeKept ==
    [][ (workout.startTime # Null /\ lastOp' # "resetAll")
            => workout'.startTime = workout.startTime ]_vars

\* ---------------------------------------------------------------- C9
\* C9: after startWorkout at 0, startSet at 0, endSetStartRest at 10000,
\* endRestStartSet at 40000 and finishWorkout at 50000 on a new session,
\* exercise 1 holds two records (lift 10000 / rest 30000, lift 10000 /
\* rest 0) and the totals are lift 20000, rest 30000, gym 50000.
C9_BasicCycleTotals ==
    script = 5 =>
        LET sets == workout.exercises[1].sets
        IN /\ Len(workout.exercises) = 1
           /\ Len(sets) = 2
           /\ sets[1].setEnd - sets[1].setStart = 10000
           /\ sets[1].restEnd - sets[1].restStart = 30000
           /\ sets[2].setEnd - sets[2].setStart = 10000
           /\ sets[2].restEnd - sets[2].restStart = 0
           /\ Totals = [workMs |-> 20000, restMs |-> 30000, gymMs |-> 50000]

\* ---------------------------------------------------------------- C10
\* C10: nextExercise on a started, not ended session appends one fresh empty
\* exercise, makes it current, clears exerciseStartTime and sets phase READY;
\* from IN_SET it appends exactly one record (setStart = active.setStart,
\* setEnd = now, no rest) to the exercise it leaves, from READY it touches
\* no record.
C10_NextExerciseForceClose ==
    [][ (lastOp' = "nextExercise"
         /\ workout.startTime # Null /\ workout.endTime = Null) =>
          LET i   == workout.currentExerciseIndex + 1
              n   == Len(workout.exercises)
              old == workout.exercises[i].sets
          IN /\ Len(workout'.exercises) = n + 1
             /\ workout'.exercises[n + 1] = Exercise(n + 1)
             /\ workout'.currentExerciseIndex = n
             /\ workout'.exerciseStartTime = Null
             /\ workout'.phase = "READY"
             /\ \A k \in 1..n : k # i =>
                    workout'.exercises[k] = workout.exercises[k]
             /\ workout.phase = "IN_SET" =>
                    /\ workout'.exercises[i].sets =
                         Append(old, SetLog(workout.active.setStart, clock',
                                            Null, Null))
                    /\ clock' - workout.active.setStart >= 0
             /\ workout.phase = "READY" =>
                    workout'.exercises[i].sets = old ]_vars

\* ---------------------------------------------------------------- C11
\* C11: finishWorkout from IN_SET appends exactly one record to the current
\* exercise, with setStart = active.setStart and setEnd = restStart = restEnd
\* = now (a rest of length 0); from IN_REST it fills the restEnd of the open
\* rest with now and appends nothing.
C11_FinishForceClose ==
    [][ lastOp' = "finishWorkout" =>
          LET i   == workout.currentExerciseIndex + 1
              old == workout.exercises[i].sets
              new == workout'.exercises[i].sets
          IN /\ workout.phase = "IN_SET" =>
                  /\ Len(new) = Len(old) + 1
                  /\ SubSeq(new, 1, Len(old)) = old
                  /\ new[Len(new)].setStart = workout.active.setStart
                  /\ new[Len(new)].setEnd \in {t \in Times :
                                                 clock <= t /\ t <= clock'}
                  /\ new[Len(new)].restStart = new[Len(new)].setEnd
                  /\ new[Len(new)].restEnd = new[Len(new)].setEnd
                  /\ new[Len(new)].restEnd - new[Len(new)].restStart = 0
             /\ workout.phase = "IN_REST" =>
                  /\ Len(new) = Len(old)
                  /\ old[Len(old)].restEnd = Null
                  /\ new[Len(new)].restEnd \in {t \in Times :
                                                  clock <= t /\ t <= clock'}
                  /\ new = [old EXCEPT ![Len(old)].restEnd =
                                           new[Len(new)].restEnd] ]_vars

\* A session finished while lifting: the last record of the current
\* exercise has a lift of nonzero length and a rest of length 0 that starts
\* when the lift ends.
C11_Witness ==
    /\ lastOp = "finishWorkout"
    /\ workout.endTime # Null
    /\ LET sets == CurrentExercise(workout).sets
       IN /\ Len(sets) > 0
          /\ sets[Len(sets)].setStart < sets[Len(sets)].setEnd
          /\ sets[Len(sets)].restStart = sets[Len(sets)].setEnd
          /\ sets[Len(sets)].restEnd = sets[Len(sets)].restStart

\* ---------------------------------------------------------------- C12
\* C12: currentExerciseIndex is always a valid index into exercises (there
\* is always at least one exercise), and a nextExercise that appends an
\* exercise leaves currentExerciseIndex on that new, empty exercise.
C12_CurrentIndexValid ==
    /\ [](/\ Len(workout.exercises) >= 1
          /\ workout.currentExerciseIndex \in 0..(Len(workout.exercises) - 1))
    /\ [][ (lastOp' = "nextExercise" /\ workout' # workout) =>
             /\ Len(workout'.exercises) = Len(workout.exercises) + 1
             /\ workout'.currentExerciseIndex = Len(workout'.exercises) - 1
             /\ CurrentExercise(workout').sets = <<>>
             /\ CurrentExercise(workout').id = Len(workout'.exercises) ]_vars

\* nextExercise has just moved to a second exercise, leaving records behind.
C12_Witness ==
    /\ lastOp = "nextExercise"
    /\ Len(workout.exercises) = 2
    /\ workout.currentExerciseIndex = 1
    /\ Len(workout.exercises[1].sets) > 0

\* ---------------------------------------------------------------- C13
\* C13: resetAll, whatever the session it is invoked on, leaves the initial
\* Session: every timestamp absent, phase READY, currentExerciseIndex 0, one
\* exercise without sets, displayed set count 0.
C13_ResetGivesInitialSession ==
    [][ lastOp' = "resetAll" =>
          /\ workout'.startTime = Null
          /\ workout'.exerciseStartTime = Null
          /\ workout'.endTime = Null
          /\ workout'.active.setStart = Null
          /\ workout'.active.restStart = Null
          /\ workout'.phase = "READY"
          /\ workout'.currentExerciseIndex = 0
          /\ Len(workout'.exercises) = 1
          /\ workout'.exercises[1].id = 1
          /\ workout'.exercises[1].sets = <<>>
          /\ getSetCountForDisplay(workout') = 0 ]_vars

\* resetAll has discarded a session that was resting, hence held a record.
C13_Witness ==
    /\ lastOp = "resetAll"
    /\ resetFrom = "IN_REST"

\* ---------------------------------------------------------------- C14
LiftOf(s) == IF s.setStart # Null /\ s.setEnd # Null
             THEN s.setEnd - s.setStart ELSE 0

RestOf(s) == IF s.restStart # Null /\ s.restEnd # Null
             THEN s.restEnd - s.restStart ELSE 0

\* Sums of the lifts and of the rests over a set S of record positions of w.
RECURSIVE SumLift(_, _)
SumLift(w, S) ==
    IF S = {} THEN 0
    ELSE LET p == CHOOSE q \in S : TRUE
         IN LiftOf(Rec(w, p)) + SumLift(w, S \ {p})

RECURSIVE SumRest(_, _)
SumRest(w, S) ==
    IF S = {} THEN 0
    ELSE LET p == CHOOSE q \in S : TRUE
         IN RestOf(Rec(w, p)) + SumRest(w, S \ {p})

\* C14: calcTotals returns workMs = sum of setEnd - setStart and restMs = sum
\* of restEnd - restStart over all records where both are present, and gymMs
\* = (endTime, else now) - startTime when startTime is present (whatever its
\* value), 0 when it is absent.
C14_CalcTotalsDefinition ==
    /\ Totals.workMs = SumLift(workout, Records(workout))
    /\ Totals.restMs = SumRest(workout, Records(workout))
    /\ Totals.gymMs = IF workout.startTime # Null
                      THEN (IF workout.endTime # Null THEN workout.endTime
                            ELSE clock) - workout.startTime
                      ELSE 0

\* ---------------------------------------------------------------- C15
\* The number a sequence of digit characters denotes.
RECURSIVE Number(_)
Number(str) ==
    IF str = <<>> THEN 0
    ELSE 10 * Number(SubSeq(str, 1, Len(str) - 1))
         + (CHOOSE d \in 0..9 : DigitChars[d + 1] = str[Len(str)])

\* Position of the colon in a formatted clock.
ColonAt(str) == CHOOSE i \in 1..Len(str) : str[i] = ":"

\* C15: msToClock(ms) is minutes:seconds with minutes = floor(ms / 60000),
\* not rolled over into hours, and seconds = floor(ms / 1000) mod 60 on two
\* digits; a negative ms gives 0:00; 0 -> 0:00, 59000 -> 0:59, 60000 -> 1:00,
\* 3661000 -> 61:01.
C15_MsToClockFormat ==
    pure.fn = "msToClock" =>
        LET ms   == pure.arg[1]
            str  == pure.out
            i    == ColonAt(str)
            mins == SubSeq(str, 1, i - 1)
            secs == SubSeq(str, i + 1, Len(str))
        IN /\ Cardinality({j \in 1..Len(str) : str[j] = ":"}) = 1
           /\ Len(mins) >= 1
           /\ Len(mins) > 1 => mins[1] # "0"
           /\ Len(secs) = 2
           /\ ms >= 0 => /\ Number(mins) = ms \div 60000
                         /\ Number(secs) = (ms \div 1000) % 60
           /\ ms < 0 => str = <<"0", ":", "0", "0">>
           /\ ms = 0 => str = <<"0", ":", "0", "0">>
           /\ ms = 59000 => str = <<"0", ":", "5", "9">>
           /\ ms = 60000 => str = <<"1", ":", "0", "0">>
           /\ ms = 3661000 => str = <<"6", "1", ":", "0", "1">>

\* msToClock has formatted a duration of more than an hour.
C15_Witness ==
    /\ pure.fn = "msToClock"
    /\ pure.arg = <<3661000>>
    /\ pure.out = <<"6", "1", ":", "0", "1">>

\* ---------------------------------------------------------------- C16
\* C16: for whole > 0 calcPercent(part, whole) is an integer nearest to
\* part / whole * 100; for whole <= 0 it is 0; for 0 <= part <= whole it
\* lies in 0..100.
C16_CalcPercentRounds ==
    pure.fn = "calcPercent" =>
        LET part  == pure.arg[1]
            whole == pure.arg[2]
            r     == pure.out[1]
            err   == r * whole - 100 * part
        IN /\ whole > 0 => (2 * err <= whole /\ 2 * (0 - err) <= whole)
           /\ whole <= 0 => r = 0
           /\ (whole > 0 /\ 0 <= part /\ part <= whole) => r \in 0..100
           /\ pure.arg = <<50, 100>> => r = 50
           /\ pure.arg = <<0, 0>> => r = 0

\* calcPercent has rounded 2/3 up to 67 percent.
C16_Witness ==
    /\ pure.fn = "calcPercent"
    /\ pure.arg = <<2, 3>>
    /\ pure.out = <<67>>

\* ---------------------------------------------------------------- C17
\* C17: a startSet that finds exerciseStartTime absent sets it to now; once
\* present, exerciseStartTime keeps its value through every handler other
\* than nextExercise and resetAll.
C17_ExerciseTimerKept ==
    [][ /\ (lastOp' = "startSet" /\ workout' # workout
            /\ workout.exerciseStartTime = Null)
           => workout'.exerciseStartTime = clock'
        /\ (workout.exerciseStartTime # Null
            /\ lastOp' \notin {"nextExercise", "resetAll"})
           => workout'.exerciseStartTime = workout.exerciseStartTime ]_vars

\* A second set of the exercise was started after the exercise timer.
C17_Witness ==
    /\ lastOp = "endRestStartSet"
    /\ workout.phase = "IN_SET"
    /\ workout.exerciseStartTime # Null
    /\ workout.exerciseStartTime < workout.active.setStart

\* ---------------------------------------------------------------- C18
\* C18: the displayed set count starts at 0 and, while the current exercise
\* stays the same, is increased by no handler other than endSetStartRest.
C18_CountOnlyOnEndSet ==
    /\ [](lastOp = "none" => getSetCountForDisplay(workout) = 0)
    /\ [][ (workout'.currentExerciseIndex = workout.currentExerciseIndex
            /\ getSetCountForDisplay(workout') > getSetCountForDisplay(workout))
           => lastOp' = "endSetStartRest" ]_vars

\* ---------------------------------------------------------------- C19
\* The Workout after the step is the one a single invocation of the handler
\* gives for some reading of now().
SameAsSingle ==
    \E t \in From(clock) : \E t2 \in From(t) :
        /\ t2 <= clock'
        /\ workout' = Handle(lastOp', workout, t, t2)

\* C19 as stated: a handler invoked twice in rapid succession, the second
\* invocation seeing the updated or the stale Workout, gives what a single
\* invocation gives up to the timestamp; it never appends two records, and
\* the phase/active and SetLog invariants still hold.
C19_RapidRepeatIsSingle ==
    /\ [](C1_PhaseMirrorsActive /\ C5_RecordsWellFormed)
    /\ [][ second' # "none" =>
             /\ SameAsSingle
             /\ LogSize(workout'.exercises)
                    <= LogSize(workout.exercises) + 1 ]_vars

\* C19 amended: as stated for every handler, except that a second
\* nextExercise that sees the updated Workout appends a second empty
\* exercise (and still no second record).
C19_RapidRepeatIsSingleButNext ==
    /\ [](C1_PhaseMirrorsActive /\ C5_RecordsWellFormed)
    /\ [][ second' # "none" =>
             /\ ~(lastOp' = "nextExercise" /\ second' = "updated")
                    => SameAsSingle
             /\ (lastOp' = "nextExercise" /\ second' = "updated"
                 /\ workout' # workout)
                    => /\ Len(workout'.exercises) = Len(workout.exercises) + 2
                       /\ \E t \in Times :
                            /\ clock <= t /\ t <= clock'
                            /\ SubSeq(workout'.exercises, 1,
                                      Len(workout.exercises) + 1)
                                 = nextExercise(workout, t).exercises
             /\ LogSize(workout'.exercises)
                    <= LogSize(workout.exercises) + 1 ]_vars

\* endSetStartRest was invoked twice and the second invocation saw the
\* Workout already resting, with its one new record.
C19_Witness ==
    /\ second = "updated"
    /\ lastOp = "endSetStartRest"
    /\ workout.phase = "IN_REST"
    /\ Len(CurrentExercise(workout).sets) = 1

\* ---------------------------------------------------------------- C20
\* C20: after a finishWorkout that closed the session or a resetAll, once no
\* request or release of the wake lock is pending, wakeLockRef is empty and
\* the screen is not held awake; and the settling of a request or of a
\* release leaves the Workout unchanged.
C20_WakeLockReleased ==
    /\ []( ( /\ \/ lastOp = "finishWorkout" /\ workout.endTime # Null
                \/ lastOp = "resetAll"
             /\ WakePending(wake) = 0 )
           => (wake.ref = Null /\ wake.held = {}) )
    /\ [][ (WakePending(wake') < WakePending(wake)
            \/ wake'.held # wake.held)
           => workout' = workout ]_vars

\* ---------------------------------------------------------------- C21
\* C21: a tick step (the counter goes up by one) is taken only in a session
\* whose startTime is present and whose endTime is absent, and it leaves
\* every field of the Workout as it was.
C21_TickLeavesSession ==
    [][tick' = tick + 1 =>
          /\ workout.startTime # Null
          /\ workout.endTime = Null
          /\ workout' = workout]_vars

\* The tick has fired in a session that is resting after a logged set.
C21_Witness ==
    /\ tick > 0
    /\ workout.endTime = Null
    /\ workout.phase = "IN_REST"
    /\ LogSize(workout.exercises) > 0

\* ---------------------------------------------------------------- C22
\* Positions of the records whose rest is open.
OpenRests(w) ==
    {p \in Records(w) : Rec(w, p).restStart # Null /\ Rec(w, p).restEnd = Null}

\* C22: the phase is IN_REST exactly when some record has an open rest; the
\* open rest is then the last record of the current exercise, the only one,
\* and it started at active.restStart, so the current exercise has a record
\* whenever the phase is IN_REST; after nextExercise or finishWorkout no rest
\* is open.
C22_OpenRestIffInRest ==
    /\ [](/\ workout.phase = "IN_REST" <=> OpenRests(workout) # {}
          /\ workout.phase = "IN_REST" =>
                /\ Len(CurrentExercise(workout).sets) > 0
                /\ OpenRests(workout) =
                       {<<workout.currentExerciseIndex + 1,
                          Len(CurrentExercise(workout).sets)>>}
                /\ CurrentExercise(workout)
                       .sets[Len(CurrentExercise(workout).sets)].restStart
                     = workout.active.restStart)
    /\ [][lastOp' \in {"nextExercise", "finishWorkout"} =>
              OpenRests(workout') = {}]_vars

\* Resting after the second set of an exercise: the first rest is closed,
\* the second is open.
C22_Witness ==
    /\ workout.phase = "IN_REST"
    /\ Len(CurrentExercise(workout).sets) = 2
    /\ CurrentExercise(workout).sets[1].restEnd # Null
    /\ OpenRests(workout) = {<<workout.currentExerciseIndex + 1, 2>>}

\* ---------------------------------------------------------------- C23
\* C23: in a started session that has not ended, phase READY means that the
\* current exercise has no records and that exerciseStartTime is absent;
\* hence every startSet that changes the Workout stores the time it read as
\* exerciseStartTime.
C23_ReadyOnlyBeforeFirstSet ==
    /\ []((/\ workout.startTime # Null
           /\ workout.endTime = Null
           /\ workout.phase = "READY")
            => /\ CurrentExercise(workout).sets = <<>>
               /\ workout.exerciseStartTime = Null)
    /\ [][(lastOp' = "startSet" /\ workout' # workout) =>
              /\ workout.phase = "READY"
              /\ workout'.exerciseStartTime = clock']_vars

\* The first set of a second exercise has started, after records were
\* logged for the first exercise.
C23_Witness ==
    /\ lastOp = "startSet"
    /\ workout.phase = "IN_SET"
    /\ workout.currentExerciseIndex = 1
    /\ LogSize(workout.exercises) > 0
    /\ workout.exerciseStartTime = workout.active.setStart

\* ---------------------------------------------------------------- C24
\* The timestamps present in record s.
Stamps(s) == {s.setStart, s.setEnd, s.restStart, s.restEnd} \ {Null}

\* C24: with a non-decreasing time source the log is chronological: in a
\* record setStart <= setEnd, and restStart = setEnd when restStart is
\* present; of two consecutive records of an exercise the later starts when
\* the rest of the earlier ended; no timestamp of a later exercise is before
\* a timestamp of an earlier one; every timestamp of a record lies between
\* startTime and endTime (the latest reading of the time source while the
\* session has not ended).
C24_LogChronological ==
    LET w   == workout
        end == Coalesce(w.endTime, clock)
    IN /\ \A p \in Records(w) :
             LET s == Rec(w, p)
             IN /\ s.setStart # Null
                /\ s.setEnd # Null
                /\ s.setStart <= s.setEnd
                /\ s.restStart # Null => s.restStart = s.setEnd
                /\ \A x \in Stamps(s) :
                       /\ w.startTime # Null
                       /\ w.startTime <= x
                       /\ x <= end
       /\ \A p \in Records(w) : \A q \in Records(w) :
             /\ (p[1] = q[1] /\ q[2] = p[2] + 1)
                   => Rec(w, p).restEnd = Rec(w, q).setStart
             /\ p[1] < q[1]
                   => \A x \in Stamps(Rec(w, p)) : \A y \in Stamps(Rec(w, q)) :
                         x <= y

\* Two exercises with a record each, the second lifted after the first.
C24_Witness ==
    /\ Len(workout.exercises) = 2
    /\ Len(workout.exercises[1].sets) = 1
    /\ Len(workout.exercises[2].sets) = 1
    /\ workout.exercises[1].sets[1].setStart
          < workout.exercises[1].sets[1].setEnd
    /\ workout.exercises[1].sets[1].setEnd
          < workout.exercises[2].sets[1].setStart

====
